---- MODULE Spec2Model ----
(***************************************************************************)
(* YAML file discovery: scanner.core (ScanOptions, ScanResult,             *)
(* scan_directory) and scanner.filters (is_yaml_file, is_hidden_directory) *)
(* over a small POSIX filesystem.                                          *)
(*                                                                         *)
(* A path is the sequence of its components below "/", a component is a    *)
(* string, and Chars gives the characters of a component as code points,   *)
(* so that suffixes, case folding and string comparison are computed.      *)
(* The pathlib calls made by the code are modelled as CPython 3.11 on      *)
(* POSIX executes them.                                                    *)
(***************************************************************************)
EXTENDS Integers, Sequences, FiniteSets, TLC

VARIABLES fs, pc, given, verr, options, files, errors, seen,
          cur, todo, stack, failed, appended, calls, prev, listed, cli

vars == <<fs, pc, given, verr, options, files, errors, seen,
          cur, todo, stack, failed, appended, calls, prev, listed, cli>>

(***************************************************************************)
(* Bounds                                                                  *)
(***************************************************************************)
\* at most this many entries are created below the scanned root
MaxLeaves == 3

\* number of scan_directory calls made in SpecTwice
MaxCalls == 2

\* at most this many entries below the root when the command line
\* interface is run (SpecCli)
MaxLeavesCli == 2

(***************************************************************************)
(* Strings and paths                                                       *)
(***************************************************************************)
Chars ==
     "w" :> <<119>> @@
     "r" :> <<114>> @@
     ".h" :> <<46, 104>> @@
     ".p" :> <<46, 112>> @@
     "a" :> <<97>> @@
     "a-b" :> <<97, 45, 98>> @@
     ".g" :> <<46, 103>> @@
     "s" :> <<115>> @@
     "x.yaml" :> <<120, 46, 121, 97, 109, 108>> @@
     "y.yml" :> <<121, 46, 121, 109, 108>> @@
     "a.yaml" :> <<97, 46, 121, 97, 109, 108>> @@
     "B.YML" :> <<66, 46, 89, 77, 76>> @@
     "c.txt" :> <<99, 46, 116, 120, 116>> @@
     "l.yaml" :> <<108, 46, 121, 97, 109, 108>> @@
     "m.yaml" :> <<109, 46, 121, 97, 109, 108>> @@
     "n.yaml" :> <<110, 46, 121, 97, 109, 108>> @@
     "t.yaml" :> <<116, 46, 121, 97, 109, 108>> @@
     "k" :> <<107>> @@
     "d.yaml" :> <<100, 46, 121, 97, 109, 108>> @@
     "q.yml" :> <<113, 46, 121, 109, 108>> @@
     "up" :> <<117, 112>> @@
     "f.txt" :> <<102, 46, 116, 120, 116>> @@
     "lnk" :> <<108, 110, 107>> @@
     "dead" :> <<100, 101, 97, 100>> @@
     "nope" :> <<110, 111, 112, 101>>

\* s < t for two sequences of code points (Python str comparison)
StrLess(s, t) ==
    \E i \in 1..(Len(s) + 1) :
        /\ \A j \in 1..(i - 1) : j <= Len(t) /\ s[j] = t[j]
        /\ IF i > Len(s) THEN Len(t) >= i
           ELSE i <= Len(t) /\ s[i] < t[i]

\* str(path): "/" followed by the components joined with "/" (47 is "/")
RECURSIVE PathStr(_)
PathStr(p) ==
    IF p = <<>> THEN <<47>>
    ELSE IF Len(p) = 1 THEN <<47>> \o Chars[p[1]]
    ELSE PathStr(SubSeq(p, 1, Len(p) - 1)) \o <<47>> \o Chars[p[Len(p)]]

\* Path.name: the final component, "" for the filesystem root
PathName(p) == IF p = <<>> THEN <<>> ELSE Chars[p[Len(p)]]

\* Path.parents: every proper ancestor, up to and including "/"
Parents(p) == { SubSeq(p, 1, n) : n \in 0..(Len(p) - 1) }

Parent(p) == SubSeq(p, 1, Len(p) - 1)

IsPrefix(d, p) == Len(d) <= Len(p) /\ SubSeq(p, 1, Len(d)) = d

\* Path.suffix: name[i:] for i = name.rfind("."), if 0 < i < len(name) - 1
\* (0-based), else ""  (46 is ".")
PathSuffix(p) ==
    LET name == PathName(p)
        dots == { i \in 1..Len(name) : name[i] = 46 }
    IN  IF dots = {} THEN <<>>
        ELSE LET i == CHOOSE d \in dots : \A e \in dots : e <= d
             IN  IF 1 < i /\ i < Len(name) THEN SubSeq(name, i, Len(name))
                 ELSE <<>>

\* str.lower() on ASCII: "A".."Z" (65..90) become "a".."z"
Lower(s) == [ i \in 1..Len(s) |-> IF s[i] >= 65 /\ s[i] <= 90 THEN s[i] + 32 ELSE s[i] ]

(***************************************************************************)
(* scanner.filters                                                         *)
(***************************************************************************)
\* {".yaml", ".yml"}
YamlSuffixes == { <<46, 121, 97, 109, 108>>, <<46, 121, 109, 108>> }

is_yaml_file(path) == Lower(PathSuffix(path)) \in YamlSuffixes

is_hidden_directory(path) ==
    LET name == PathName(path) IN Len(name) >= 1 /\ name[1] = 46

\* Path.__lt__: the component lists are compared element by element, each
\* component as a string
PathLess(p, q) ==
    \E i \in 1..(Len(p) + 1) :
        /\ \A j \in 1..(i - 1) : j <= Len(q) /\ p[j] = q[j]
        /\ IF i > Len(p) THEN Len(q) >= i
           ELSE i <= Len(q) /\ StrLess(Chars[p[i]], Chars[q[i]])

\* the list left in the order of discovery
SortFilesOmitted(fl) == fl

\* list.sort() of result.files
SortFiles(fl) == SortSeq(fl, PathLess)

(***************************************************************************)
(* The filesystem                                                          *)
(*                                                                         *)
(* fs maps every existing path to its inode: kind is "dir", "file" or      *)
(* "link" (target is where a link points), r is the read permission of a   *)
(* directory (listing it) and x its search permission (reaching what is    *)
(* inside it).  "/" always exists.                                         *)
(***************************************************************************)
NoPath == <<"nope", "nope">>

Cwd == <<"w">>

Roots == { <<"w", "r">>, <<"w", ".h">>, <<".p", "r">> }

Leaf(rel, kind, target) == [rel |-> rel, kind |-> kind, target |-> target]

\* entries that may exist below the scanned root; rel and target are
\* relative to the root
Pool ==
    { Leaf(<<"a.yaml">>, "file", <<>>),
      Leaf(<<"B.YML">>, "file", <<>>),
      Leaf(<<"c.txt">>, "file", <<>>),
      Leaf(<<"a", "x.yaml">>, "file", <<>>),
      Leaf(<<"a-b", "x.yaml">>, "file", <<>>),
      Leaf(<<"a", ".g", "y.yml">>, "file", <<>>),
      Leaf(<<".g", "s", "x.yaml">>, "file", <<>>),
      Leaf(<<"d.yaml">>, "dir", <<>>),
      Leaf(<<"l.yaml">>, "link", <<"a.yaml">>),
      Leaf(<<"m.yaml">>, "link", <<"a.yaml">>),
      Leaf(<<"n.yaml">>, "link", <<"a", "x.yaml">>),
      Leaf(<<"t.yaml">>, "link", <<"c.txt">>),
      Leaf(<<"q.yml">>, "link", <<"a">>),
      Leaf(<<"a", "up">>, "link", <<>>) }

\* permission bits a directory may have lost: [r, x]
Modes == { [r |-> FALSE, x |-> TRUE], [r |-> TRUE, x |-> FALSE], [r |-> FALSE, x |-> FALSE] }

NoFault == [dir |-> NoPath, r |-> TRUE, x |-> TRUE]

Faults(root, leaves) ==
    {NoFault} \cup
    IF root # <<"w", "r">> THEN {}
    ELSE { [dir |-> d, r |-> m.r, x |-> m.x] :
             d \in {root} \cup { root \o <<"a">> : l \in { k \in leaves : k.rel[1] = "a" } },
             m \in Modes }

Inode(kind, target, r, x) == [kind |-> kind, target |-> target, r |-> r, x |-> x]

MkFs(root, leaves, fault) ==
    LET below == UNION { { root \o SubSeq(l.rel, 1, n) : n \in 1..Len(l.rel) } : l \in leaves }
        fixed == { <<"w">>, <<"w", "f.txt">>, <<"w", "lnk">>, <<"w", "dead">> }
        dom   == (Parents(root) \ {<<>>}) \cup {root} \cup below \cup fixed
        node(p) ==
            IF p = <<"w", "f.txt">> THEN Inode("file", <<>>, TRUE, TRUE)
            ELSE IF p = <<"w", "lnk">> THEN Inode("link", root, TRUE, TRUE)
            ELSE IF p = <<"w", "dead">> THEN Inode("link", <<"w", "nope">>, TRUE, TRUE)
            ELSE IF \E l \in leaves : p = root \o l.rel
            THEN LET l == CHOOSE k \in leaves : p = root \o k.rel
                 IN  Inode(l.kind, IF l.kind = "link" THEN root \o l.target ELSE <<>>, TRUE, TRUE)
            ELSE IF p = fault.dir THEN Inode("dir", <<>>, fault.r, fault.x)
            ELSE Inode("dir", <<>>, TRUE, TRUE)
    IN  [ p \in dom |-> node(p) ]

LeafSets == { L \in SUBSET Pool : Cardinality(L) <= MaxLeaves }

Exists(p) == p = <<>> \/ p \in DOMAIN fs

Kind(p) == IF p = <<>> THEN "dir" ELSE IF p \in DOMAIN fs THEN fs[p].kind ELSE "none"

Searchable(d) == d = <<>> \/ (d \in DOMAIN fs /\ fs[d].x)

\* lstat(2): the type of p itself, or the errno
Lstat(p) ==
    IF \E d \in Parents(p) : Exists(d) /\ ~Searchable(d) THEN "EACCES"
    ELSE IF ~Exists(p) \/ \E d \in Parents(p) : Kind(d) # "dir" THEN "ENOENT"
    ELSE Kind(p)

\* stat(2): as lstat, following a symbolic link to its target
RECURSIVE Stat(_)
Stat(p) ==
    IF Lstat(p) = "link" THEN Stat(fs[p].target) ELSE Lstat(p)

\* os.listdir / os.scandir: "ok" or the errno
Listdir(d) ==
    IF Stat(d) \in {"EACCES", "ENOENT"} THEN Stat(d)
    ELSE IF Stat(d) # "dir" THEN "ENOTDIR"
    ELSE IF ~fs[d].r THEN "EACCES"
    ELSE "ok"

Children(d) == { p \in DOMAIN fs : Len(p) = Len(d) + 1 /\ IsPrefix(d, p) }

\* Path.exists(), Path.is_dir(), Path.is_file(), Path.is_symlink(): the
\* errors ENOENT, ENOTDIR, EBADF and ELOOP give False, any other is raised
PathExists(p) ==
    IF Stat(p) = "EACCES" THEN "PermissionError"
    ELSE IF Stat(p) \in {"ENOENT", "ENOTDIR"} THEN "False" ELSE "True"

PathIsDir(p) ==
    IF Stat(p) = "EACCES" THEN "PermissionError"
    ELSE IF Stat(p) = "dir" THEN "True" ELSE "False"

PathIsFile(p) ==
    IF Stat(p) = "EACCES" THEN "PermissionError"
    ELSE IF Stat(p) = "file" THEN "True" ELSE "False"

PathIsSymlink(p) ==
    IF Lstat(p) = "EACCES" THEN "PermissionError"
    ELSE IF Lstat(p) = "link" THEN "True" ELSE "False"

\* Path.resolve(): absolute, every symbolic link replaced by its target
RECURSIVE Resolve(_)
Resolve(p) ==
    IF Kind(p) = "link" THEN Resolve(fs[p].target) ELSE p

(***************************************************************************)
(* ScanOptions                                                             *)
(***************************************************************************)
NoGiven == [parts |-> NoPath, relative |-> FALSE, recursive |-> "unset"]

NoOptions == [input_dir |-> NoPath, recursive |-> FALSE, format |-> "", verbosity |-> ""]

\* values passed as input_dir: the candidate roots, a regular file, a link
\* to the root, a dangling link, a missing path, and two relative paths
GivenPaths ==
    { [parts |-> p, relative |-> FALSE] :
        p \in Roots \cup { <<"w", "f.txt">>, <<"w", "lnk">>, <<"w", "dead">>, <<"w", "nope">> } }
    \cup { [parts |-> <<"r">>, relative |-> TRUE], [parts |-> <<".h">>, relative |-> TRUE] }

\* a relative path is taken from the working directory
Absolute(g) == IF g.relative THEN Cwd \o g.parts ELSE g.parts

\* the is_dir() test left out
validate_exists_only(v) ==
    IF PathExists(v) = "PermissionError" THEN [exc |-> "PermissionError", value |-> NoPath]
    ELSE IF PathExists(v) = "False"
    THEN [exc |-> "ValueError: Directory does not exist", value |-> NoPath]
    ELSE [exc |-> "none", value |-> Resolve(v)]

\* ScanOptions.validate_directory_exists
validate_directory_exists(v) ==
    IF PathExists(v) = "PermissionError" THEN [exc |-> "PermissionError", value |-> NoPath]
    ELSE IF PathExists(v) = "False"
    THEN [exc |-> "ValueError: Directory does not exist", value |-> NoPath]
    ELSE IF PathIsDir(v) = "False"
    THEN [exc |-> "ValueError: Path is not a directory", value |-> NoPath]
    ELSE [exc |-> "none", value |-> Resolve(v)]

\* the command line interface before it is invoked
NoCli == [input_dir |-> NoPath, recursive |-> FALSE, format |-> "", verbosity |-> "",
          status |-> 0, result |-> FALSE, stdout |-> <<>>, stderr |-> <<>>]

\* ScanOptions(input_dir=..., [recursive=...]): the fields not passed take
\* their defaults
Construct ==
    /\ pc = "construct"
    /\ \E g \in GivenPaths, rec \in {"unset", "True", "False"} :
         LET res == validate_directory_exists(Absolute(g))
         IN  /\ given' = [parts |-> g.parts, relative |-> g.relative, recursive |-> rec]
             /\ verr' = res.exc
             /\ IF res.exc = "none"
                THEN /\ options' = [input_dir |-> res.value,
                                    recursive |-> (rec = "True"),
                                    format |-> "human",
                                    verbosity |-> "info"]
                     /\ pc' = "ready"
                ELSE /\ options' = options
                     /\ pc' = "invalid"
    /\ UNCHANGED <<fs, files, errors, seen, cur, todo, stack, failed, appended, calls, prev,
                   listed, cli>>

\* the environment removes the validated root before the scan starts
EnvRemoveRoot ==
    /\ pc = "ready"
    /\ calls = 1
    /\ options.input_dir \in DOMAIN fs
    /\ fs' = [ p \in { q \in DOMAIN fs : ~IsPrefix(options.input_dir, q) } |-> fs[p] ]
    /\ UNCHANGED <<pc, given, verr, options, files, errors, seen,
                   cur, todo, stack, failed, appended, calls, prev, listed, cli>>

(***************************************************************************)
(* scan_directory                                                          *)
(*                                                                         *)
(* files, errors: the lists of the ScanResult; seen: seen_files.           *)
(* cur, todo, stack: the state of the rglob("*") / iterdir() generator:    *)
(* todo holds the entries of directory cur not yet yielded, stack the      *)
(* directories still to be listed (rglob lists a directory, yields all its *)
(* entries, then descends into its sub-directories, depth first; the order *)
(* of the entries of one directory is the filesystem's).                   *)
(* failed, appended and listed are history variables: the paths at which   *)
(* an OS call failed during the scan, which entry added which result, and  *)
(* the canonical paths of the directories the generator has listed.        *)
(***************************************************************************)
\* the exception raised for an errno
ErrnoException(e) ==
    IF e = "EACCES" THEN "PermissionError"
    ELSE IF e = "ENOENT" THEN "FileNotFoundError"
    ELSE "NotADirectoryError"

\* the except clauses: the message prefix of the recorded error, or
\* "uncaught" for what neither clause catches
ExceptClause(exc) ==
    IF exc = "PermissionError" THEN "Permission denied"
    ELSE IF exc \in {"FileNotFoundError", "NotADirectoryError", "OSError"} THEN "OS error"
    ELSE "uncaught"

\* the symbolic-link test left out
RecursiveOutcomeFollowsLinks(item) ==
    IF \E parent \in Parents(item) : is_hidden_directory(parent) THEN "skip"
    ELSE IF PathIsFile(item) = "PermissionError" THEN "PermissionError"
    ELSE IF PathIsFile(item) = "True" /\ is_yaml_file(item) THEN "candidate"
    ELSE "skip"

\* recursive mode, the tests made on one yielded entry
RecursiveOutcome(item) ==
    IF \E parent \in Parents(item) : is_hidden_directory(parent) THEN "skip"
    ELSE IF PathIsSymlink(item) = "PermissionError" THEN "PermissionError"
    ELSE IF PathIsSymlink(item) = "True" THEN "skip"
    ELSE IF PathIsFile(item) = "PermissionError" THEN "PermissionError"
    ELSE IF PathIsFile(item) = "True" /\ is_yaml_file(item) THEN "candidate"
    ELSE "skip"

\* the is_file() test left out
NonRecursiveOutcomeAnyType(item) ==
    IF is_yaml_file(item) THEN "candidate" ELSE "skip"

\* non-recursive mode, the tests made on one yielded entry
NonRecursiveOutcome(item) ==
    IF PathIsFile(item) = "PermissionError" THEN "PermissionError"
    ELSE IF PathIsFile(item) = "True" /\ is_yaml_file(item) THEN "candidate"
    ELSE "skip"

ItemOutcome(item) ==
    IF options.recursive THEN RecursiveOutcome(item) ELSE NonRecursiveOutcome(item)

\* the membership test dropped
NotSeenAlways(resolved, s) == TRUE

\* resolved not in seen_files
NotSeen(resolved, s) == resolved \notin s

\* descending into whatever is a directory after following links
DescendFollowsLinks(d) == { c \in Children(d) : Stat(c) = "dir" }

\* the sub-directories rglob descends into: directories that are not
\* symbolic links
Descend(d) == { c \in Children(d) : Kind(c) = "dir" }

Push(st, ds) == IF ds = {} THEN st ELSE <<ds>> \o st

Pop(st, d) == IF st[1] = {d} THEN Tail(st) ELSE <<st[1] \ {d}>> \o Tail(st)

\* an exception reaches the try statement: the matching clause records one
\* error for options.input_dir, the loop is abandoned, the files found so
\* far are sorted and the result is returned
Caught(exc, where) ==
    /\ failed' = failed \cup {where}
    /\ cur' = NoPath
    /\ todo' = {}
    /\ stack' = <<>>
    /\ IF ExceptClause(exc) = "uncaught"
       THEN /\ pc' = "raised"
            /\ UNCHANGED <<files, errors>>
       ELSE /\ pc' = "done"
            /\ errors' = Append(errors, <<options.input_dir, ExceptClause(exc)>>)
            /\ files' = SortFiles(files)

\* result = ScanResult(); seen_files = set(); the generator is created
StartScan ==
    /\ pc = "ready"
    /\ pc' = "loop"
    /\ files' = <<>>
    /\ errors' = <<>>
    /\ seen' = {}
    /\ failed' = {}
    /\ appended' = {}
    /\ cur' = NoPath
    /\ todo' = {}
    /\ stack' = <<{options.input_dir}>>
    /\ given' = NoGiven
    /\ listed' = {}
    /\ UNCHANGED <<fs, verr, options, calls, prev, cli>>

\* the generator lists the next directory
OpenDirectory ==
    /\ pc = "loop"
    /\ todo = {}
    /\ stack # <<>>
    /\ \E d \in stack[1] :
         /\ listed' = listed \cup {Resolve(d)}
         /\ IF options.recursive
            THEN IF d = options.input_dir /\ PathIsDir(d) = "PermissionError"
                 THEN Caught("PermissionError", d) /\ UNCHANGED <<seen, appended>>
                 ELSE IF (d = options.input_dir /\ PathIsDir(d) = "False") \/ Listdir(d) = "EACCES"
                 THEN /\ failed' = failed \cup {d}
                      /\ cur' = d
                      /\ todo' = {}
                      /\ stack' = Pop(stack, d)
                      /\ UNCHANGED <<pc, files, errors, seen, appended>>
                 ELSE IF Listdir(d) # "ok"
                 THEN Caught(ErrnoException(Listdir(d)), d) /\ UNCHANGED <<seen, appended>>
                 ELSE /\ cur' = d
                      /\ todo' = Children(d)
                      /\ stack' = Push(Pop(stack, d), Descend(d))
                      /\ UNCHANGED <<pc, files, errors, seen, failed, appended>>
            ELSE IF Listdir(d) # "ok"
                 THEN Caught(ErrnoException(Listdir(d)), d) /\ UNCHANGED <<seen, appended>>
                 ELSE /\ cur' = d
                      /\ todo' = Children(d)
                      /\ stack' = <<>>
                      /\ UNCHANGED <<pc, files, errors, seen, failed, appended>>
    /\ UNCHANGED <<fs, given, verr, options, calls, prev, cli>>

\* one iteration of the for loop: the generator yields an entry and the
\* loop body runs on it
VisitItem ==
    /\ pc = "loop"
    /\ todo # {}
    /\ \E item \in todo :
         IF ItemOutcome(item) = "PermissionError"
         THEN Caught("PermissionError", item) /\ UNCHANGED <<seen, appended>>
         ELSE /\ todo' = todo \ {item}
              /\ IF ItemOutcome(item) = "candidate" /\ NotSeen(Resolve(item), seen)
                 THEN /\ seen' = seen \cup {Resolve(item)}
                      /\ files' = Append(files, Resolve(item))
                      /\ appended' = appended \cup {<<item, Resolve(item)>>}
                 ELSE UNCHANGED <<seen, files, appended>>
              /\ UNCHANGED <<pc, errors, cur, stack, failed>>
    /\ UNCHANGED <<fs, given, verr, options, calls, prev, listed, cli>>

\* the generator is exhausted: result.files.sort(); return result
Finish ==
    /\ pc = "loop"
    /\ todo = {}
    /\ stack = <<>>
    /\ pc' = "done"
    /\ files' = SortFiles(files)
    /\ cur' = NoPath
    /\ UNCHANGED <<fs, given, verr, options, errors, seen, todo, stack, failed, appended, calls, prev,
                   listed, cli>>

\* the caller keeps the returned result and calls scan_directory again with
\* the same options
ScanAgain ==
    /\ pc = "done"
    /\ calls < MaxCalls
    /\ calls' = calls + 1
    /\ prev' = [files |-> files, errors |-> errors]
    /\ pc' = "ready"
    /\ UNCHANGED <<fs, given, verr, options, files, errors, seen, cur, todo, stack, failed, appended,
                   listed, cli>>

(***************************************************************************)
(* Specifications                                                          *)
(***************************************************************************)
Init ==
    /\ \E root \in Roots, L \in LeafSets :
         \E f \in Faults(root, L) : fs = MkFs(root, L, f)
    /\ pc = "construct"
    /\ given = NoGiven
    /\ verr = "none"
    /\ options = NoOptions
    /\ files = <<>>
    /\ errors = <<>>
    /\ seen = {}
    /\ cur = NoPath
    /\ todo = {}
    /\ stack = <<>>
    /\ failed = {}
    /\ appended = {}
    /\ calls = 1
    /\ prev = [files |-> <<>>, errors |-> <<>>]
    /\ listed = {}
    /\ cli = NoCli

Next == Construct \/ EnvRemoveRoot \/ StartScan \/ OpenDirectory \/ VisitItem \/ Finish

Spec == Init /\ [][Next]_vars

NextTwice == Next \/ ScanAgain

SpecTwice == Init /\ [][NextTwice]_vars

(***************************************************************************)
(* scanner.cli: the scan command                                           *)
(*                                                                         *)
(* cli holds the converted options of the invocation, the exit status      *)
(* (meaningful once pc = "exited") and what was written to stdout and      *)
(* stderr.                                                                 *)
(***************************************************************************)
\* values given for --format and --verbosity
Formats == {"json", "human", "xml"}

Verbosities == {"quiet", "info", "verbose", "loud"}

Line(kind, path) == [kind |-> kind, path |-> path]

Out(kind, n, rows) == [kind |-> kind, count |-> n, rows |-> rows]

\* ScanResult.has_errors and ScanResult.count
has_errors == Len(errors) > 0

count == Len(files)

\* format_json_output / format_human_output: what is printed on stdout
RenderOutput(format, verbosity) ==
    IF format = "json" THEN <<Out("json", count, [ i \in 1..Len(files) |-> PathStr(files[i]) ])>>
    ELSE IF verbosity = "quiet" THEN <<>>
    ELSE IF verbosity = "info" THEN <<Out("summary", count, <<>>)>>
    ELSE IF verbosity = "verbose"
    THEN IF count = 0 THEN <<Out("none found", count, <<>>)>>
         ELSE <<Out("table", count, [ i \in 1..Len(files) |-> PathStr(files[i]) ])>>
    ELSE <<>>

\* the errors of the result, one line each on stderr
ErrorLines == [ i \in 1..Len(errors) |-> Line("Error scanning", errors[i][1]) ]

\* the exit status ignoring the errors of the result
ExitStatusAlwaysClean(he) == 0

\* raise typer.Exit(code=1) if result.has_errors, else a normal return
ExitStatus(he) == IF he THEN 1 ELSE 0

\* the --input-dir option (exists, not a file, resolve_path, readable) is
\* converted before the command body runs; a rejected value ends the
\* process with the usage status
CliParse ==
    /\ pc = "cli"
    /\ \E g \in GivenPaths, rec \in BOOLEAN, fmt \in Formats, verb \in Verbosities :
         LET rv == Resolve(Absolute(g))
         IN  /\ given' = [parts |-> g.parts, relative |-> g.relative, recursive |-> "unset"]
             /\ IF Stat(rv) # "dir" \/ ~fs[rv].r
                THEN /\ cli' = [NoCli EXCEPT !.status = 2, !.stderr = <<Line("usage", rv)>>]
                     /\ pc' = "exited"
                ELSE /\ cli' = [NoCli EXCEPT !.input_dir = rv, !.recursive = rec,
                                             !.format = fmt, !.verbosity = verb]
                     /\ pc' = "cli_body"
    /\ UNCHANGED <<fs, verr, options, files, errors, seen, cur, todo, stack, failed, appended,
                   calls, prev, listed>>

\* the environment removes the directory after the option was converted
EnvRemoveArgDir ==
    /\ pc = "cli_body"
    /\ cli.input_dir \in DOMAIN fs
    /\ fs' = [ p \in { q \in DOMAIN fs : ~IsPrefix(cli.input_dir, q) } |-> fs[p] ]
    /\ UNCHANGED <<pc, given, verr, options, files, errors, seen,
                   cur, todo, stack, failed, appended, calls, prev, listed, cli>>

\* the command body up to the call of scan_directory: format and verbosity
\* are checked, then ScanOptions is built
CliBody ==
    /\ pc = "cli_body"
    /\ given' = NoGiven
    /\ IF cli.format \notin {"json", "human"}
       THEN /\ cli' = [cli EXCEPT !.status = 1,
                                  !.stderr = Append(@, Line("Invalid format", NoPath))]
            /\ pc' = "exited"
            /\ UNCHANGED <<verr, options>>
       ELSE IF cli.verbosity \notin {"quiet", "info", "verbose"}
       THEN /\ cli' = [cli EXCEPT !.status = 1,
                                  !.stderr = Append(@, Line("Invalid verbosity", NoPath))]
            /\ pc' = "exited"
            /\ UNCHANGED <<verr, options>>
       ELSE LET res == validate_directory_exists(cli.input_dir)
            IN  /\ verr' = res.exc
                /\ IF res.exc = "none"
                   THEN /\ options' = [input_dir |-> res.value,
                                       recursive |-> cli.recursive,
                                       format |-> cli.format,
                                       verbosity |-> cli.verbosity]
                        /\ pc' = "ready"
                        /\ cli' = cli
                   ELSE /\ options' = options
                        /\ pc' = "exited"
                        /\ cli' = [cli EXCEPT !.status = 1,
                                              !.stderr = Append(@,
                                                  Line(IF res.exc = "PermissionError"
                                                       THEN "Unexpected error" ELSE "Error",
                                                       cli.input_dir))]
    /\ UNCHANGED <<fs, files, errors, seen, cur, todo, stack, failed, appended, calls, prev, listed>>

\* the command body after scan_directory returned: the errors go to
\* stderr, the result to stdout, and the process exits; typer.Exit raised
\* inside the try statement passes through "except Exception", which
\* prints a line and exits with status 1
CliOutput ==
    /\ pc \in {"done", "raised"}
    /\ cli.input_dir # NoPath
    /\ pc' = "exited"
    /\ IF pc = "raised"
       THEN cli' = [cli EXCEPT !.status = 1,
                               !.stderr = Append(@, Line("Unexpected error", NoPath))]
       ELSE cli' = [cli EXCEPT !.status = ExitStatus(has_errors),
                               !.result = TRUE,
                               !.stdout = RenderOutput(cli.format, cli.verbosity),
                               !.stderr = @ \o ErrorLines \o
                                          (IF has_errors
                                           THEN <<Line("Unexpected error", NoPath)>>
                                           ELSE <<>>)]
    /\ UNCHANGED <<fs, given, verr, options, files, errors, seen, cur, todo, stack, failed,
                   appended, calls, prev, listed>>

InitCli ==
    /\ \E root \in Roots, L \in { K \in SUBSET Pool : Cardinality(K) <= MaxLeavesCli } :
         \E f \in Faults(root, L) : fs = MkFs(root, L, f)
    /\ pc = "cli"
    /\ given = NoGiven
    /\ verr = "none"
    /\ options = NoOptions
    /\ files = <<>>
    /\ errors = <<>>
    /\ seen = {}
    /\ cur = NoPath
    /\ todo = {}
    /\ stack = <<>>
    /\ failed = {}
    /\ appended = {}
    /\ calls = 1
    /\ prev = [files |-> <<>>, errors |-> <<>>]
    /\ listed = {}
    /\ cli = NoCli

NextCli ==
    \/ CliParse \/ EnvRemoveArgDir \/ CliBody \/ EnvRemoveRoot
    \/ StartScan \/ OpenDirectory \/ VisitItem \/ Finish \/ CliOutput

SpecCli == InitCli /\ [][NextCli]_vars

\* the code is sequential and synchronous: once scan_directory is called,
\* each step of the call is eventually taken
SpecFair ==
    /\ Init /\ [][Next]_vars
    /\ WF_vars(StartScan)
    /\ WF_vars(OpenDirectory)
    /\ WF_vars(VisitItem)
    /\ WF_vars(Finish)

(***************************************************************************)
(* Properties                                                              *)
(***************************************************************************)
Root == options.input_dir

Range(sq) == { sq[i] : i \in 1..Len(sq) }

\* C1: scan_directory never raises, and every failure met while
\* enumerating, type-testing or canonicalizing shows as an entry of errors.
C1_NeverRaisesFailuresReported ==
    /\ pc # "raised"
    /\ (pc = "done" /\ failed # {}) => errors # <<>>

\* C2 as stated: the returned files are in increasing order of their path
\* strings.
C2_SortedByPathString ==
    pc = "done" =>
        \A i, j \in 1..Len(files) :
            i < j <=> StrLess(PathStr(files[i]), PathStr(files[j]))

\* C2 amended: the returned files are in increasing order of their
\* component lists (Path comparison), each component compared as a string.
C2_SortedByComponents ==
    pc = "done" =>
        \A i, j \in 1..Len(files) :
            i < j <=> PathLess(files[i], files[j])

\* two results whose string order and component order differ
C2_Witness ==
    /\ pc = "done"
    /\ \E i, j \in 1..Len(files) :
         /\ i < j
         /\ PathLess(files[i], files[j])
         /\ StrLess(PathStr(files[j]), PathStr(files[i]))

\* C3: at every step and in the result, no canonical path is in files twice.
C3_NoDuplicates ==
    \A i, j \in 1..Len(files) : files[i] = files[j] => i = j

\* a finished non-recursive scan in which two entries resolved to one path
C3_Witness ==
    /\ pc = "done"
    /\ ~options.recursive
    /\ errors = <<>>
    /\ \E c1, c2 \in Children(Root) :
         /\ c1 # c2
         /\ NonRecursiveOutcome(c1) = "candidate"
         /\ NonRecursiveOutcome(c2) = "candidate"
         /\ Resolve(c1) = Resolve(c2)
         /\ Resolve(c1) \in Range(files)

\* the directories strictly between root and p
StrictlyBetween(root, p) == { SubSeq(p, 1, n) : n \in (Len(root) + 1)..(Len(p) - 1) }

\* the regular, non-symlink files below root whose name has a YAML extension
YamlFilesBelow(root) ==
    { p \in DOMAIN fs : IsPrefix(root, p) /\ p # root /\ Kind(p) = "file" /\ is_yaml_file(p) }

Count(f) == Cardinality({ i \in 1..Len(files) : files[i] = f })

\* C4: a recursive scan without enumeration failure reports a regular YAML
\* file of the subtree iff no directory strictly between the root and the
\* file is hidden; the names of the root and of the directories above it
\* exclude nothing.
C4_HiddenOnlyBelowRoot ==
    (pc = "done" /\ options.recursive /\ failed = {}) =>
        \A p \in YamlFilesBelow(Root) :
            p \in Range(files) <=>
                ~\E d \in StrictlyBetween(Root, p) : is_hidden_directory(d)

AccessibleYaml ==
    { p \in YamlFilesBelow(Root) :
        /\ \A d \in StrictlyBetween(Root, p) \cup {Root} : fs[d].r /\ fs[d].x
        /\ ~\E d \in StrictlyBetween(Root, p) : is_hidden_directory(d) }

\* C7: a recursive scan of a tree with accessible YAML files and an
\* inaccessible sub-directory or entry reports both: the accessible files
\* in files and the failure in errors.
C7_PartialFailureReportsBoth ==
    (pc = "done" /\ options.recursive /\ failed # {} /\ AccessibleYaml # {}) =>
        /\ errors # <<>>
        /\ AccessibleYaml \subseteq Range(files)

\* C8: when the root cannot be enumerated, in either mode, the result has
\* exactly one error, for the root path, and no files.
C8_RootFailureOneError ==
    (pc = "done" /\ Listdir(Root) # "ok") =>
        /\ Len(errors) = 1
        /\ errors[1][1] = Root
        /\ files = <<>>

\* C9: a second call with the same options over the unchanged filesystem
\* returns the same files list as the first, whatever the order of
\* enumeration in each call.
C9_Deterministic ==
    (pc = "done" /\ calls > 1) => files = prev.files

\* C10: construction fails with "does not exist" for a missing root and
\* with "not a directory" for a root that is not a directory, and nothing
\* is traversed after a failure; on success input_dir is the absolute
\* canonical path of the root and recursive, format and verbosity take the
\* passed value or False, "human" and "info".
C10_Validation ==
    [][ /\ pc = "invalid" => FALSE
        /\ pc = "construct" =>
             LET v == Absolute(given') IN
             /\ Stat(v) = "ENOENT" =>
                    pc' = "invalid" /\ verr' = "ValueError: Directory does not exist"
             /\ Stat(v) = "file" =>
                    pc' = "invalid" /\ verr' = "ValueError: Path is not a directory"
             /\ pc' = "invalid" =>
                    options' = NoOptions /\ files' = <<>> /\ stack' = <<>> /\ failed' = {}
             /\ Stat(v) = "dir" =>
                    /\ pc' = "ready"
                    /\ verr' = "none"
                    /\ options'.input_dir \in Roots
                    /\ \A d \in Parents(options'.input_dir) \cup {options'.input_dir} :
                           Kind(d) = "dir"
                    /\ options'.recursive = (given'.recursive = "True")
                    /\ options'.format = "human"
                    /\ options'.verbosity = "info"
      ]_vars

\* options built from a symbolic link to the root, recursive not passed
C10_Witness ==
    /\ pc = "ready"
    /\ given.parts = <<"w", "lnk">>
    /\ given.recursive = "unset"
    /\ options.input_dir # given.parts

\* ScanResult.to_json_array: str(f) for every f of files
to_json_array == [ i \in 1..Len(files) |-> PathStr(files[i]) ]

\* the extension of a path string: what follows the last "." of the part
\* after the last "/", lower-cased ("" when that part has no inner ".")
StrExtension(str) ==
    LET slashes == { i \in 1..Len(str) : str[i] = 47 }
        from == IF slashes = {} THEN 1
                ELSE 1 + CHOOSE i \in slashes : \A j \in slashes : j <= i
        name == SubSeq(str, from, Len(str))
        dots == { i \in 1..Len(name) : name[i] = 46 }
    IN  IF dots = {} THEN <<>>
        ELSE LET i == CHOOSE d \in dots : \A e \in dots : e <= d
             IN  IF 1 < i /\ i < Len(name) THEN Lower(SubSeq(name, i, Len(name))) ELSE <<>>

\* C12: in either mode every returned path, and every string of
\* to_json_array(), names a regular file whose own extension is ".yaml" or
\* ".yml" in any letter case.
C12_ResultsAreYamlFiles ==
    pc = "done" =>
        /\ \A i \in 1..Len(files) : Kind(files[i]) = "file" /\ is_yaml_file(files[i])
        /\ Len(to_json_array) = Len(files)
        /\ \A i \in 1..Len(to_json_array) : StrExtension(to_json_array[i]) \in YamlSuffixes

\* C13: a recursive scan, also of a tree with directory links that point
\* back into the tree, eventually returns; every directory the traversal
\* lists is one it has not listed before and is not a symbolic link.
C13_RecursiveScanTerminates ==
    /\ [][ (pc = "loop" /\ options.recursive /\ todo = {} /\ stack # <<>>) =>
              /\ listed' # listed
              /\ \A d \in listed' : Kind(d) # "link" ]_vars
    /\ (pc = "loop" /\ options.recursive) ~> (pc = "done")

\* a finished recursive scan of a tree in which a sub-directory that was
\* listed holds a link to the root
C13_Witness ==
    /\ pc = "done"
    /\ options.recursive
    /\ failed = {}
    /\ \E l \in DOMAIN fs :
         /\ Kind(l) = "link"
         /\ fs[l].target = Root
         /\ IsPrefix(Root, l)
         /\ Parent(l) \in listed
         /\ Parent(l) # Root

\* the path strings printed on stdout
PrintedPaths == UNION { Range(cli.stdout[i].rows) : i \in 1..Len(cli.stdout) }

\* the checks of the exit status that do not concern the output
ExitStatusRules ==
    /\ (cli.status = 0) <=> (options # NoOptions /\ cli.result /\ ~has_errors)
    /\ (cli.input_dir # NoPath /\ (cli.format \notin {"json", "human"}
                                    \/ cli.verbosity \notin {"quiet", "info", "verbose"}))
           => (cli.status = 1 /\ options = NoOptions /\ listed = {} /\ ~cli.result)
    /\ verr # "none" => cli.status = 1
    /\ (cli.result /\ has_errors) => cli.status = 1

====
